---- MODULE Spec2Model ----
(***************************************************************************)
(* Model of the VolumeTracker market-data pipeline:                        *)
(*   CoinGeckoAPI._make_request / _safe_float / get_market_data            *)
(*   (src/utils/coingecko_api.py), fetch_crypto_data and the filter step   *)
(*   of main (src/main.py).                                                *)
(*                                                                         *)
(* Floats are modelled as exact rationals <<n, d>> in lowest terms with    *)
(* d >= 0; d = 0 encodes the IEEE specials: <<1,0>> = +inf,                *)
(* <<-1,0>> = -inf, <<0,0>> = NaN.  Binary rounding error of doubles is    *)
(* not modelled.                                                           *)
(***************************************************************************)
EXTENDS Integers, Sequences, FiniteSets, TLC

\* pc         where the run of main stands: "idle", "waiting" (GET sent),
\*            "sleeping" (after a 429), "returned" (_make_request done),
\*            "normalized" / "raised" (get_market_data done / raised),
\*            "enriched" (fetch_crypto_data done), "shown" / "failed" /
\*            "crashed" (what main displays)
\* upstream   the body the provider answers a successful GET with
\* sent       the GET requests _make_request has issued, oldest first
\* slept      seconds spent in time.sleep
\* status     outcome of the last GET: a status code or an exception
\* data       what _make_request returned to get_market_data
\* processed  processed_data, what get_market_data returned
\* errors     the 'Error processing entry' lines get_market_data printed
\* df         the frame fetch_crypto_data returned, or None
\* view       filtered_df with the criteria of the filter widgets
\* exc        the exception that left get_market_data, "" if none
VARIABLES pc, upstream, sent, slept, status, data, processed, errors, df, view, exc

vars == <<pc, upstream, sent, slept, status, data, processed, errors, df, view, exc>>

\* Longest batch of raw records the provider serves in the model.
MaxBatch == 3
\* Most HTTP 429 answers the provider gives to one fetch in the model.
MaxThrottle == 2

----------------------------------------------------------------------------
(* Exact float arithmetic *)

Abs(x) == IF x < 0 THEN -x ELSE x

Sign(x) == IF x > 0 THEN 1 ELSE IF x < 0 THEN -1 ELSE 0

RECURSIVE GCD(_, _)
GCD(a, b) == IF b = 0 THEN a ELSE GCD(b, a % b)

\* The float n/d, normalised.
Float(n, d) ==
    IF d = 0 THEN <<Sign(n), 0>>
    ELSE LET s == IF d < 0 THEN -1 ELSE 1
             g == GCD(Abs(n), Abs(d))
         IN  <<(s * n) \div g, (s * d) \div g>>

F(i) == <<i, 1>>
NaN == <<0, 0>>
PosInf == <<1, 0>>

IsNaN(x) == x = NaN
IsFinite(x) == x[2] # 0

FMul(a, b) == Float(a[1] * b[1], a[2] * b[2])

FAdd(a, b) ==
    IF IsFinite(a) /\ IsFinite(b) THEN Float(a[1] * b[2] + b[1] * a[2], a[2] * b[2])
    ELSE IF IsNaN(a) \/ IsNaN(b) THEN NaN
    ELSE IF IsFinite(a) THEN b
    ELSE IF IsFinite(b) THEN a
    ELSE IF a = b THEN a ELSE NaN

FNeg(a) == <<-a[1], a[2]>>

FSub(a, b) == FAdd(a, FNeg(b))

FRecip(b) == IF b[1] < 0 THEN <<-b[2], -b[1]>> ELSE <<b[2], b[1]>>

\* IEEE division as numpy/pandas perform it: x/0 is +-inf, 0/0 is NaN.
FDiv(a, b) == FMul(a, FRecip(b))

\* a < b on floats; every comparison with NaN is false.
FLt(a, b) ==
    IF IsNaN(a) \/ IsNaN(b) THEN FALSE
    ELSE IF a[2] = 0 /\ b[2] = 0 THEN a[1] < b[1]
    ELSE a[1] * b[2] < b[1] * a[2]

FGt(a, b) == FLt(b, a)

FGe(a, b) == IF IsNaN(a) \/ IsNaN(b) THEN FALSE ELSE ~FLt(a, b)

\* Series.round(2): round half to even at two decimals; inf and NaN pass.
Round2(x) ==
    IF ~IsFinite(x) THEN x
    ELSE LET n == 100 * x[1]
             q == n \div x[2]
             r == n % x[2]
             k == IF 2 * r < x[2] THEN q
                  ELSE IF 2 * r > x[2] THEN q + 1
                  ELSE IF q % 2 = 0 THEN q ELSE q + 1
         IN  Float(k, 100)

\* Series.fillna(v)
FillNa(x, v) == IF IsNaN(x) THEN v ELSE x

----------------------------------------------------------------------------
(* Raw provider values and records (decoded JSON) *)

\* A decoded JSON value in a field of a raw record.  t = "missing" stands
\* for an absent key, "numstr" for a string that float() parses to v,
\* "badstr" for any other string held in a numeric field, "list" for a
\* nested array, "str" for the text s.
Missing == [t |-> "missing", v |-> 0, s |-> ""]
Null == [t |-> "null", v |-> 0, s |-> ""]
Num(n) == [t |-> "num", v |-> n, s |-> ""]
NumStr(n) == [t |-> "numstr", v |-> n, s |-> ""]
BadStr == [t |-> "badstr", v |-> 0, s |-> "n/a"]
ListVal == [t |-> "list", v |-> 0, s |-> ""]
Str(x) == [t |-> "str", v |-> 0, s |-> x]

\* A raw record of the batch; mapping = FALSE is an element that is not a
\* JSON object (a string, a number, null, an array).
RawEntry(isMapping, symbol, cap, vol, price, pc1h, pc24) ==
    [mapping |-> isMapping,
     id |-> Str("coin"), name |-> Str("Coin"), symbol |-> symbol,
     market_cap |-> cap, total_volume |-> vol, current_price |-> price,
     price_change_percentage_1h_in_currency |-> pc1h,
     price_change_percentage_24h |-> pc24]

NonMapping == RawEntry(FALSE, Missing, Missing, Missing, Missing, Missing, Missing)

Return(x) == [ok |-> TRUE, val |-> x, exc |-> ""]
Raise(e) == [ok |-> FALSE, val |-> <<>>, exc |-> e]

\* dict.get(key) / dict.get(key, default): the default also replaces an
\* absent key only, never a null.
EntryGet(value, default) == IF value.t = "missing" THEN default ELSE value

\* CoinGeckoAPI._safe_float applied to entry.get(key): None (absent or
\* null) gives the default; float() parses numbers and numeric strings and
\* raises ValueError / TypeError, both caught, on anything else.
SafeFloat(value, default) ==
    IF value.t \in {"missing", "null"} THEN default
    ELSE IF value.t \in {"num", "numstr"} THEN F(value.v)
    ELSE default

\* str.upper on the symbols of the model.
Upper(x) ==
    CASE x = "btc" -> "BTC"
      [] x = "eth" -> "ETH"
      [] OTHER -> x

\* The 24h estimate without the zero guards.
VolumeChange24hUnguarded(current_price, price_change_24h, current_volume) ==
    LET denom == FAdd(F(1), FDiv(price_change_24h, F(100)))
    IN  IF denom = F(0) \/ current_price = F(0) THEN Raise("ZeroDivisionError")
        ELSE LET price_24h_ago == FDiv(current_price, denom)
                 volume_24h_ago ==
                     FDiv(FMul(current_volume, price_24h_ago), current_price)
             IN  IF volume_24h_ago = F(0) THEN Raise("ZeroDivisionError")
                 ELSE Return(FMul(FDiv(FSub(current_volume, volume_24h_ago),
                                       volume_24h_ago), F(100)))

\* The 24h estimate with the change taken relative to the current volume
\* instead of the volume 24h ago.
VolumeChange24hOverCurrent(current_price, price_change_24h, current_volume) ==
    IF FGt(current_price, F(0)) /\ price_change_24h # F(0)
    THEN LET denom == FAdd(F(1), FDiv(price_change_24h, F(100)))
         IN  IF denom = F(0) THEN Raise("ZeroDivisionError")
             ELSE LET price_24h_ago == FDiv(current_price, denom)
                      volume_24h_ago ==
                          FDiv(FMul(current_volume, price_24h_ago), current_price)
                  IN  Return(IF FGt(volume_24h_ago, F(0))
                             THEN FMul(FDiv(FSub(current_volume, volume_24h_ago),
                                            current_volume), F(100))
                             ELSE F(0))
    ELSE Return(F(0))

\* get_market_data, lines 84-90: the estimated 24h volume change.  Python's
\* float division raises ZeroDivisionError on a zero divisor.
VolumeChange24h(current_price, price_change_24h, current_volume) ==
    IF FGt(current_price, F(0)) /\ price_change_24h # F(0)
    THEN LET denom == FAdd(F(1), FDiv(price_change_24h, F(100)))
         IN  IF denom = F(0) THEN Raise("ZeroDivisionError")
             ELSE LET price_24h_ago == FDiv(current_price, denom)
                      volume_24h_ago ==
                          FDiv(FMul(current_volume, price_24h_ago), current_price)
                  IN  Return(IF FGt(volume_24h_ago, F(0))
                             THEN FMul(FDiv(FSub(current_volume, volume_24h_ago),
                                            volume_24h_ago), F(100))
                             ELSE F(0))
    ELSE Return(F(0))

\* The body of the for loop of get_market_data (lines 72-109) on one element:
\* Return(the processed entry), or Raise(the exception the handler at line
\* 107 catches, after which the element is skipped).
ProcessEntry(entry) ==
    IF ~entry.mapping THEN Raise("AttributeError")
    ELSE
    LET current_volume == SafeFloat(entry.total_volume, F(0))
        market_cap == SafeFloat(entry.market_cap, F(0))
        current_price == SafeFloat(entry.current_price, F(0))
        price_change_1h ==
            SafeFloat(entry.price_change_percentage_1h_in_currency, F(0))
        price_change_24h == SafeFloat(entry.price_change_percentage_24h, F(0))
        volume_change_5min == FDiv(price_change_1h, F(12))
        volume_change_1h == FMul(price_change_1h, Float(3, 2))
        vc24 == VolumeChange24h(current_price, price_change_24h, current_volume)
        symbol == EntryGet(entry.symbol, Str(""))
    IN
    IF ~vc24.ok THEN vc24
    ELSE IF symbol.t # "str" THEN Raise("AttributeError")
    ELSE Return([id |-> EntryGet(entry.id, Str("")),
                 name |-> EntryGet(entry.name, Str("")),
                 symbol |-> Upper(symbol.s),
                 current_price |-> current_price,
                 market_cap |-> market_cap,
                 total_volume |-> current_volume,
                 price_change_percentage_24h |-> price_change_24h,
                 volume_change_percentage_5m |-> volume_change_5min,
                 volume_change_percentage_1h |-> volume_change_1h,
                 volume_change_percentage_24h |-> vc24.val])

\* The loop of get_market_data as a slip would write it: no per-element
\* handler, so the first element that raises ends the loop and what was
\* processed so far is returned.
RECURSIVE ProcessAllAbort(_)
ProcessAllAbort(entries) ==
    IF entries = <<>> THEN <<>>
    ELSE LET r == ProcessEntry(Head(entries))
         IN  IF r.ok THEN <<r.val>> \o ProcessAllAbort(Tail(entries))
             ELSE <<>>

\* The for loop of get_market_data (lines 70-111): processed entries in
\* batch order, elements whose processing raised left out.
RECURSIVE ProcessAll(_)
ProcessAll(entries) ==
    IF entries = <<>> THEN <<>>
    ELSE LET r == ProcessEntry(Head(entries))
             rest == ProcessAll(Tail(entries))
         IN  IF r.ok THEN <<r.val>> \o rest ELSE rest

\* What the handler at lines 107-109 prints, one line per skipped element:
\* the position of the element in the batch and the exception.
RECURSIVE ProcessErrors(_)
ProcessErrors(entries) ==
    IF entries = <<>> THEN <<>>
    ELSE LET r == ProcessEntry(Head(entries))
             rest == ProcessErrors(Tail(entries))
         IN  IF r.ok THEN rest
             ELSE <<[pos |-> Head(entries).id.v, exc |-> r.exc]>> \o rest

----------------------------------------------------------------------------
(* Enrichment: fetch_crypto_data *)

RECURSIVE SumCaps(_)
\* df['market_cap'].sum(): NaN cells are skipped.
SumCaps(records) ==
    IF records = <<>> THEN F(0)
    ELSE FAdd(FillNa(Head(records).market_cap, F(0)), SumCaps(Tail(records)))

\* df['market_cap'].sum() written as the largest market cap of the batch.
RECURSIVE MaxCap(_)
MaxCap(records) ==
    IF records = <<>> THEN F(0)
    ELSE LET m == MaxCap(Tail(records))
             c == FillNa(Head(records).market_cap, F(0))
         IN  IF FGt(c, m) THEN c ELSE m

\* Line 34: total_market_cap.
TotalMarketCap(records) == SumCaps(records)

\* Lines 56-58: pd.to_numeric(col, errors='coerce').fillna(0.0) on a cell
\* that is already a float: only NaN changes.
ToNumeric(x) == FillNa(x, F(0))

\* Lines 33-58 without the total_market_cap guard and without the final
\* coercion, as the earlier version of the script (src/voltracker.py:33)
\* computes the ratio.
EnrichRowUnguarded(r, total) ==
    r @@ [volume_market_cap_ratio |->
              Round2(FMul(FDiv(r.total_volume, r.market_cap), F(100))),
          market_dominance |->
              Round2(FMul(FDiv(r.market_cap, total), F(100)))]

\* Lines 35-58 for one row of the frame, given total_market_cap.
EnrichRow(r, total) ==
    LET ratio == IF FGt(total, F(0))
                 THEN Round2(FMul(FDiv(FillNa(r.total_volume, F(0)),
                                       FillNa(r.market_cap, F(1))), F(100)))
                 ELSE F(0)
        dominance == IF FGt(total, F(0))
                     THEN Round2(FMul(FDiv(FillNa(r.market_cap, F(0)), total),
                                      F(100)))
                     ELSE F(0)
    IN  [id |-> r.id, name |-> r.name, symbol |-> r.symbol,
         current_price |-> r.current_price,
         market_cap |-> r.market_cap,
         total_volume |-> r.total_volume,
         price_change_percentage_24h |-> ToNumeric(r.price_change_percentage_24h),
         volume_change_percentage_5m |-> ToNumeric(r.volume_change_percentage_5m),
         volume_change_percentage_1h |-> ToNumeric(r.volume_change_percentage_1h),
         volume_change_percentage_24h |-> ToNumeric(r.volume_change_percentage_24h)]
        @@ [volume_market_cap_ratio |-> ToNumeric(ratio),
            market_dominance |-> ToNumeric(dominance)]

\* Lines 31-60: the enriched frame (the timestamp column is left out).
Enrich(records) ==
    LET total == TotalMarketCap(records)
    IN  [i \in 1..Len(records) |-> EnrichRow(records[i], total)]

NoFrame == [some |-> FALSE, rows |-> <<>>]
Frame(rows) == [some |-> TRUE, rows |-> rows]

\* fetch_crypto_data given what get_market_data returned (lines 26-60).
FetchCryptoData(records) ==
    IF records = <<>> THEN NoFrame ELSE Frame(Enrich(records))

----------------------------------------------------------------------------
(* Filter step of main *)

\* The default filter with an inclusive bound.
SelectDefaultInclusive(rows) ==
    SelectSeq(rows, LAMBDA r : FGe(r.volume_market_cap_ratio, F(100)))

\* Line 196: df[df['volume_market_cap_ratio'] > 100]
SelectDefault(rows) ==
    SelectSeq(rows, LAMBDA r : FGt(r.volume_market_cap_ratio, F(100)))

\* Lines 208-212: the custom filters.
SelectCustom(rows, min_ratio, min_volume, min_dominance) ==
    SelectSeq(rows, LAMBDA r :
        /\ FGe(r.volume_market_cap_ratio, min_ratio)
        /\ FGe(r.total_volume, min_volume)
        /\ FGe(r.market_dominance, min_dominance))

\* A filter step that lists the newest match first.
RECURSIVE Reverse(_)
Reverse(q) == IF q = <<>> THEN <<>> ELSE Append(Reverse(Tail(q)), Head(q))

FilterReversed(rows, c) ==
    Reverse(IF c.high THEN SelectDefault(rows)
            ELSE SelectCustom(rows, c.min_ratio, c.min_volume, c.min_dominance))

\* Lines 193-212: the filter step; c.high is the checkbox show_high_volume.
Filter(rows, c) ==
    IF c.high THEN SelectDefault(rows)
    ELSE SelectCustom(rows, c.min_ratio, c.min_volume, c.min_dominance)

----------------------------------------------------------------------------
(* The provider and the request loop *)

\* Response bodies.  "list" is a JSON array of the items; "dict" a JSON
\* object (an error document); "scalar" a truthy JSON scalar (true, 42);
\* "null" the JSON null; "invalid" a body that is not JSON.
ListBody(items) == [t |-> "list", items |-> items]
DictBody == [t |-> "dict", items |-> <<>>]
ScalarBody == [t |-> "scalar", items |-> <<>>]
NullBody == [t |-> "null", items |-> <<>>]
InvalidBody == [t |-> "invalid", items |-> <<>>]
None == [t |-> "none", items |-> <<>>]

\* Records of the batches: market cap / volume pairs that give a ratio of
\* exactly 100, above it, one that needs rounding, a zero market cap with
\* and without volume, a null market cap, a zero volume; an element that is
\* no mapping; a mapping whose symbol is null.
Coin(cap, vol) ==
    RawEntry(TRUE, Str("btc"), cap, vol, Num(2), Num(6), Num(50))

BatchEntries ==
    { Coin(Num(100), Num(100)), Coin(Num(100), Num(400)),
      Coin(Num(300), Num(400)), Coin(Num(300), Num(0)),
      Coin(Num(0), Num(400)), Coin(Null, Num(0)),
      NonMapping,
      RawEntry(TRUE, Null, Num(100), Num(400), Num(2), Num(6), Num(50)) }

\* Single records that vary every numeric field over absent, null,
\* unparsable and numeric values.
FieldEntries ==
    { RawEntry(TRUE, sym, Num(100), vol, price, pc1h, pc24) :
        sym \in {Str("eth"), Missing},
        vol \in {Num(0), Num(100), Num(400), BadStr},
        price \in {Missing, Null, BadStr, Num(0), Num(2), Num(5), NumStr(2)},
        pc1h \in {Missing, Num(6)},
        pc24 \in {ListVal, Null, Num(0), Num(-100), Num(50), Num(-50),
                  Num(-150), NumStr(25)} }

\* The provider numbers the records of a batch: id is the position.
WithIds(q) == [i \in 1..Len(q) |-> [q[i] EXCEPT !.id = [t |-> "str", v |-> i, s |-> "coin"]]]

Batches ==
    UNION { { WithIds(q) : q \in [1..n -> BatchEntries] } : n \in 0..MaxBatch }
    \cup { WithIds(<<e>>) : e \in FieldEntries }

Bodies ==
    { ListBody(q) : q \in Batches }
    \cup {DictBody, ScalarBody, NullBody, InvalidBody}

\* Lines 56-65: the request get_market_data(page=1) builds.
MarketsRequest ==
    [endpoint |-> "coins/markets",
     params |-> [vs_currency |-> "usd", order |-> "market_cap_desc",
                 per_page |-> 250, page |-> 1, sparkline |-> FALSE,
                 price_change_percentage |-> "24h,1h"],
     timeout |-> 10]

\* Line 27 as a slip would write it: the retry drops the params.
RetryWithoutParams(req) == [req EXCEPT !.params = None]

\* Line 27: the recursive call passes endpoint and params on unchanged.
RetryRequest(req) == req

\* Outcomes of one GET that are not a 429: the exceptions
\* session.get raises, and the status codes of an answer.
FailureOutcomes == {"timeout", "connection", "404", "500"}

\* Lines 29-34 on an outcome other than 429: raise_for_status raises
\* HTTPError on 4xx/5xx; response.json() raises
\* requests.exceptions.JSONDecodeError on a body that is not JSON; both are
\* RequestException and give None.
MakeRequestResult(outcome, body) ==
    IF outcome # "200" THEN None
    ELSE IF body.t = "invalid" THEN None
    ELSE IF body.t = "null" THEN None
    ELSE body

\* bool(data) at line 66.
Truthy(d) ==
    CASE d.t = "none" -> FALSE
      [] d.t = "list" -> d.items # <<>>
      [] OTHER -> TRUE

\* What `for entry in data` iterates: the items of a list, the keys
\* (strings) of a dict.
Iterate(d) == IF d.t = "list" THEN d.items ELSE <<NonMapping>>

\* get_market_data after _make_request returned d (lines 66-111): a truthy
\* scalar is not iterable and the TypeError of line 71 is outside the try.
GetMarketData(d) ==
    IF ~Truthy(d) THEN Return(<<>>)
    ELSE IF d.t = "scalar" THEN Raise("TypeError")
    ELSE Return(ProcessAll(Iterate(d)))

\* The lines get_market_data prints while it processes d.
GetMarketDataLog(d) ==
    IF ~Truthy(d) \/ d.t = "scalar" THEN <<>> ELSE ProcessErrors(Iterate(d))

Criteria ==
    {[high |-> TRUE, min_ratio |-> F(0), min_volume |-> F(0), min_dominance |-> F(0)]}
    \cup [high : {FALSE}, min_ratio : {F(0), F(100)},
          min_volume : {F(0), F(400)}, min_dominance : {F(0), F(25)}]

----------------------------------------------------------------------------
(* State machine *)

Last(q) == q[Len(q)]

Init ==
    /\ pc = "idle"
    /\ upstream \in Bodies
    /\ sent = <<>>
    /\ slept = 0
    /\ status = "none"
    /\ data = None
    /\ processed = <<>>
    /\ errors = <<>>
    /\ df = NoFrame
    /\ view = [shown |-> FALSE, rows |-> <<>>, criteria |-> CHOOSE c \in Criteria : c.high]
    /\ exc = ""

\* main -> fetch_crypto_data -> get_market_data -> _make_request: the GET.
CallFetch ==
    /\ pc = "idle"
    /\ sent' = <<MarketsRequest>>
    /\ pc' = "waiting"
    /\ UNCHANGED <<upstream, slept, status, data, processed, errors, df, view, exc>>

\* The provider answers 429; _make_request goes to sleep (line 26).
RateLimited ==
    /\ pc = "waiting"
    /\ Len(sent) <= MaxThrottle
    /\ status' = "429"
    /\ pc' = "sleeping"
    /\ UNCHANGED <<upstream, sent, slept, data, processed, errors, df, view, exc>>

\* The sleep of 60 seconds ends and the recursive call sends the GET again
\* (lines 26-27).
SleepAndRetry ==
    /\ pc = "sleeping"
    /\ slept' = slept + 60
    /\ sent' = Append(sent, RetryRequest(Last(sent)))
    /\ pc' = "waiting"
    /\ UNCHANGED <<upstream, status, data, processed, errors, df, view, exc>>

\* The GET times out, the connection fails, or the answer is a 4xx/5xx
\* other than 429: _make_request returns None (lines 29-34).
RequestFails ==
    /\ pc = "waiting"
    /\ \E o \in FailureOutcomes :
         /\ status' = o
         /\ data' = MakeRequestResult(o, upstream)
    /\ pc' = "returned"
    /\ UNCHANGED <<upstream, sent, slept, processed, errors, df, view, exc>>

\* The provider answers 200 with its body (lines 29-30).
RequestSucceeds ==
    /\ pc = "waiting"
    /\ status' = "200"
    /\ data' = MakeRequestResult("200", upstream)
    /\ pc' = "returned"
    /\ UNCHANGED <<upstream, sent, slept, processed, errors, df, view, exc>>

\* get_market_data processes what _make_request returned (lines 66-111).
Normalize ==
    /\ pc = "returned"
    /\ LET r == GetMarketData(data)
       IN  IF r.ok
           THEN /\ processed' = r.val
                /\ pc' = "normalized"
                /\ exc' = exc
           ELSE /\ processed' = processed
                /\ pc' = "raised"
                /\ exc' = r.exc
    /\ errors' = GetMarketDataLog(data)
    /\ UNCHANGED <<upstream, sent, slept, status, data, df, view>>

\* The exception leaves get_market_data and fetch_crypto_data (the call at
\* line 26 is outside the try) and main's handler reports it (line 266).
Propagate ==
    /\ pc = "raised"
    /\ pc' = "crashed"
    /\ UNCHANGED <<upstream, sent, slept, status, data, processed, errors, df, view, exc>>

\* fetch_crypto_data builds the frame or returns None (lines 27-60).
EnrichStep ==
    /\ pc = "normalized"
    /\ df' = FetchCryptoData(processed)
    /\ pc' = "enriched"
    /\ UNCHANGED <<upstream, sent, slept, status, data, processed, errors, view, exc>>

\* main reports 'Failed to fetch data' on None (lines 81-83).
ShowFailure ==
    /\ pc = "enriched"
    /\ ~df.some
    /\ pc' = "failed"
    /\ UNCHANGED <<upstream, sent, slept, status, data, processed, errors, df, view, exc>>

\* main filters the frame with the criteria of the widgets and shows the
\* table, or the 'No coins match' note (lines 193-219).
ShowFiltered ==
    /\ pc = "enriched"
    /\ df.some
    /\ \E c \in Criteria :
         view' = [shown |-> TRUE, rows |-> Filter(df.rows, c), criteria |-> c]
    /\ pc' = "shown"
    /\ UNCHANGED <<upstream, sent, slept, status, data, processed, errors, df, exc>>

Next ==
    \/ CallFetch
    \/ RateLimited
    \/ SleepAndRetry
    \/ RequestFails
    \/ RequestSucceeds
    \/ Normalize
    \/ Propagate
    \/ EnrichStep
    \/ ShowFailure
    \/ ShowFiltered

Spec == Init /\ [][Next]_vars

----------------------------------------------------------------------------
(* Properties *)

\* The fetch has returned to main (normally or not).
Fetched == pc \in {"enriched", "failed", "shown", "crashed"}

RECURSIVE SumOf(_)
SumOf(q) == IF q = <<>> THEN F(0) ELSE FAdd(Head(q), SumOf(Tail(q)))

\* C1: the fetch never raises to its caller: whatever the provider does
\* (timeout, connection error, 4xx/5xx, any number of 429 answers, an
\* unusable body) get_market_data returns normally, and after any failure
\* the result is empty and fetch_crypto_data gives None.
C1_FetchNeverRaises ==
    /\ pc \notin {"raised", "crashed"}
    /\ exc = ""
    /\ (Fetched /\ (status # "200" \/ upstream.t # "list")
          => processed = <<>> /\ ~df.some)

\* C2: a retry happens exactly after a 429 and a 60 second sleep, and sends
\* the same endpoint and params again; nothing but a 429 is retried: any
\* other failure ends the fetch with None after that request; a success
\* after any number of retries returns what a first-try success returns.
C2_RetryState ==
    /\ \A i \in 1..Len(sent) : sent[i] = MarketsRequest
    /\ (sent # <<>> => slept = 60 * (Len(sent) - 1))
    /\ (pc = "sleeping" => status = "429")
    /\ (pc \notin {"idle", "waiting", "sleeping"} /\ status = "200"
          => data = MakeRequestResult("200", upstream))
    /\ (pc \notin {"idle", "waiting", "sleeping"} /\ status # "200"
          => status \in FailureOutcomes /\ data = None)

C2_RetryStep ==
    /\ (pc = "sleeping"
          => /\ pc' = "waiting"
             /\ slept' = slept + 60
             /\ sent' = Append(sent, Last(sent)))
    /\ (sent # <<>> /\ sent' # sent => pc = "sleeping" /\ status = "429")
    /\ (pc = "waiting" /\ status' # "429"
          => pc' = "returned" /\ sent' = sent /\ slept' = slept)

C2_ThrottleRetriedOnly == [](C2_RetryState) /\ [][C2_RetryStep]_vars

\* C2 happens: a success after two 429 answers delivered the batch.
C2_Witness ==
    /\ pc = "returned" /\ status = "200" /\ Len(sent) = 3
    /\ data.t = "list" /\ Len(data.items) >= 2

\* C3: an asset whose market_cap is 0 has ratio exactly 0 in the enriched
\* dataset, whatever its volume and the other assets of the batch.
C3_ZeroCapZeroRatio ==
    df.some =>
        \A i \in 1..Len(df.rows) :
            df.rows[i].market_cap = F(0)
                => df.rows[i].volume_market_cap_ratio = F(0)

\* C4 as claimed: the filtered sequence is non-increasing in ratio.
C4_SortedByRatio ==
    pc = "shown" =>
        \A i, j \in 1..Len(view.rows) :
            i < j => FGe(view.rows[i].volume_market_cap_ratio,
                         view.rows[j].volume_market_cap_ratio)

\* C4 amended: in both modes the filtered sequence keeps the included
\* assets in the order of the input dataset, which is the order of the
\* provider's batch; it is not sorted by ratio.
C4_InputOrderKept ==
    /\ (df.some =>
          \A i, j \in 1..Len(df.rows) : i < j => df.rows[i].id.v < df.rows[j].id.v)
    /\ (pc = "shown" =>
          \A i, j \in 1..Len(view.rows) :
              i < j => view.rows[i].id.v < view.rows[j].id.v)

\* C4 happens: two assets shown in input order with the smaller ratio first.
C4_Witness ==
    /\ pc = "shown" /\ Len(view.rows) >= 2
    /\ FLt(view.rows[1].volume_market_cap_ratio,
           view.rows[2].volume_market_cap_ratio)
    /\ view.rows[1].id.v < view.rows[2].id.v

\* The inclusion predicate of a mode, stated on one asset.
Included(r, c) ==
    IF c.high THEN ~FGe(F(100), r.volume_market_cap_ratio)
                   /\ ~IsNaN(r.volume_market_cap_ratio)
    ELSE /\ ~FLt(r.volume_market_cap_ratio, c.min_ratio)
         /\ ~FLt(r.total_volume, c.min_volume)
         /\ ~FLt(r.market_dominance, c.min_dominance)

\* C5: the filter returns exactly the assets that satisfy the predicate of
\* the mode (custom: ratio >= min_ratio, volume >= min_volume, dominance >=
\* min_dominance; default: ratio > 100, so exactly 100 is left out), each
\* once and unchanged; an empty result is shown normally.
C5_FilterExact ==
    pc = "shown" =>
        /\ exc = ""
        /\ \A k \in 1..Len(view.rows) :
               \E i \in 1..Len(df.rows) :
                   view.rows[k] = df.rows[i] /\ Included(df.rows[i], view.criteria)
        /\ \A i \in 1..Len(df.rows) :
               Included(df.rows[i], view.criteria)
                   => \E k \in 1..Len(view.rows) : view.rows[k] = df.rows[i]
        /\ \A k, l \in 1..Len(view.rows) : k # l => view.rows[k] # view.rows[l]

\* C5 happens: default mode kept an asset above 100 and dropped one at
\* exactly 100.
C5_Witness ==
    /\ pc = "shown" /\ view.criteria.high
    /\ Len(view.rows) = 1 /\ Len(df.rows) = 2
    /\ view.rows[1].volume_market_cap_ratio = F(400)
    /\ \E i \in 1..Len(df.rows) : df.rows[i].volume_market_cap_ratio = F(100)


\* get_market_data has processed a batch (a JSON array).
BatchProcessed == pc = "normalized" /\ data.t = "list"

\* C6 as claimed: every element of the batch that is a mapping gives exactly
\* one processed record, whatever its fields hold, with the numeric fields
\* parsed or 0.0; only elements that are no mapping are skipped.
C6_MappingNeverSkipped ==
    BatchProcessed =>
        \A i \in 1..Len(data.items) :
            LET e == data.items[i]
                hits == {k \in 1..Len(processed) : processed[k].id.v = i}
            IN  IF e.mapping
                THEN /\ Cardinality(hits) = 1
                     /\ \A k \in hits :
                          /\ processed[k].current_price = SafeFloat(e.current_price, F(0))
                          /\ processed[k].market_cap = SafeFloat(e.market_cap, F(0))
                          /\ processed[k].total_volume = SafeFloat(e.total_volume, F(0))
                          /\ processed[k].price_change_percentage_24h
                               = SafeFloat(e.price_change_percentage_24h, F(0))
                ELSE hits = {}

\* A record the loop can process: a mapping whose symbol is a string (or
\* absent) and whose 24h price change is not -100.
WellFormed(e) ==
    /\ e.mapping
    /\ EntryGet(e.symbol, Str("")).t = "str"
    /\ e.price_change_percentage_24h.t \in {"num", "numstr"}
          => e.price_change_percentage_24h.v # -100

\* C7: elements that are no mapping, at any position, do not end the fetch:
\* each is skipped (and reported), and the well-formed records of the batch
\* are all returned, processed, in their order in the batch; so one such
\* element among n records leaves n - 1.
C7_MalformedSkippedOnly ==
    /\ (pc \in {"raised", "crashed"} => data.t # "list")
    /\ (BatchProcessed
        /\ (\A i \in 1..Len(data.items) :
              data.items[i].mapping => WellFormed(data.items[i]))
        => LET good == SelectSeq(data.items, LAMBDA e : e.mapping)
               bad == SelectSeq(data.items, LAMBDA e : ~e.mapping)
           IN  /\ Len(processed) = Len(good)
               /\ \A k \in 1..Len(good) :
                      /\ processed[k].id = good[k].id
                      /\ processed[k].market_cap = SafeFloat(good[k].market_cap, F(0))
                      /\ processed[k].total_volume
                           = SafeFloat(good[k].total_volume, F(0))
               /\ Len(errors) = Len(bad)
               /\ \A k \in 1..Len(bad) : errors[k].pos = bad[k].id.v)

\* C7 happens: the middle one of three elements is no mapping and the two
\* records around it were returned.
C7_Witness ==
    /\ BatchProcessed /\ Len(data.items) = 3
    /\ WellFormed(data.items[1]) /\ ~data.items[2].mapping
    /\ WellFormed(data.items[3])
    /\ Len(processed) = 2
    /\ processed[1].id.v = 1 /\ processed[2].id.v = 3

\* The market_dominance column of the frame.
Dominances == [i \in 1..Len(df.rows) |-> df.rows[i].market_dominance]

\* C8: when the total market cap of the batch is above 0, every dominance
\* lies in [0, 100] and the dominances sum to 100 within 0.005 per asset.
C8_DominanceShares ==
    df.some /\ FGt(SumCaps(processed), F(0)) =>
        /\ \A i \in 1..Len(df.rows) :
               /\ FGe(df.rows[i].market_dominance, F(0))
               /\ FGe(F(100), df.rows[i].market_dominance)
        /\ LET off == FSub(SumOf(Dominances), F(100))
               tol == Float(5 * Len(df.rows), 1000)
           IN  FGe(tol, off) /\ FGe(off, FNeg(tol))

\* C8 happens: three assets whose rounded dominances do not sum to 100.
C8_Witness ==
    /\ df.some /\ Len(df.rows) = 3
    /\ FGt(SumCaps(processed), F(0))
    /\ SumOf(Dominances) # F(100)
    /\ \A i \in 1..3 : FGt(df.rows[i].market_dominance, F(0))

\* C9: when the market caps of the batch sum to 0, every asset's dominance
\* is exactly 0 and the enrichment ends without an error.
C9_ZeroTotalZeroDominance ==
    /\ (pc = "enriched" /\ processed # <<>> => df.some)
    /\ (df.some /\ SumCaps(processed) = F(0) =>
          /\ exc = ""
          /\ Len(df.rows) = Len(processed)
          /\ \A i \in 1..Len(df.rows) : df.rows[i].market_dominance = F(0))

\* C9 happens: a frame of two assets, both with market cap 0.
C9_Witness ==
    /\ df.some /\ Len(df.rows) = 2
    /\ SumCaps(processed) = F(0)
    /\ df.rows[1].total_volume # df.rows[2].total_volume

\* C10: a record whose current_price is 0 or whose 24h price change is 0 has
\* an estimated 24h volume change of exactly 0, whatever its other fields,
\* and computing it divides by zero nowhere (the record is not skipped with
\* a ZeroDivisionError).
C10_GuardedEstimate ==
    BatchProcessed =>
        /\ \A k \in 1..Len(processed) :
               (processed[k].current_price = F(0)
                \/ processed[k].price_change_percentage_24h = F(0))
                   => processed[k].volume_change_percentage_24h = F(0)
        /\ \A i \in 1..Len(data.items) :
               LET e == data.items[i]
               IN  e.mapping
                   /\ (SafeFloat(e.current_price, F(0)) = F(0)
                       \/ SafeFloat(e.price_change_percentage_24h, F(0)) = F(0))
                   => /\ [pos |-> i, exc |-> "ZeroDivisionError"]
                           \notin {errors[k] : k \in 1..Len(errors)}
                      /\ \E k \in 1..Len(processed) : processed[k].id.v = i

\* C10 happens: a record priced 0 with volume and a 24h change of 50 was
\* processed.
C10_Witness ==
    /\ BatchProcessed /\ Len(processed) = 1
    /\ processed[1].current_price = F(0)
    /\ processed[1].total_volume = F(100)
    /\ processed[1].price_change_percentage_24h = F(50)
    /\ processed[1].volume_change_percentage_24h = F(0)


\* C11: the estimated 24h volume change of a processed record says nothing
\* beyond its 24h price change p: with current_price > 0, total_volume > 0,
\* p > -100 and p # 0 it equals p, whatever the price and the volume are;
\* with p < -100 or total_volume = 0 it is 0.
C11_EstimateIsPriceChange ==
    BatchProcessed =>
        \A k \in 1..Len(processed) :
            LET r == processed[k]
                p == r.price_change_percentage_24h
            IN  /\ (/\ FGt(r.current_price, F(0))
                    /\ FGt(r.total_volume, F(0))
                    /\ FGt(p, F(-100))
                    /\ p # F(0))
                     => r.volume_change_percentage_24h = p
                /\ (FLt(p, F(-100)) \/ r.total_volume = F(0))
                     => r.volume_change_percentage_24h = F(0)

\* C11 happens: a record priced 5 with volume 400 and a 24h change of -50
\* was processed and its estimate is -50.
C11_Witness ==
    /\ BatchProcessed /\ Len(processed) = 1
    /\ processed[1].current_price = F(5)
    /\ processed[1].total_volume = F(400)
    /\ processed[1].price_change_percentage_24h = F(-50)
    /\ processed[1].volume_change_percentage_24h = F(-50)

====
